---- MODULE Spec2Model ----
(***************************************************************************)
(* Model of the snake game of src/main.rs: the frame loop of main(), the   *)
(* key handler Game::handle_keydown, the throttled simulation step         *)
(* Game::update with Snake::update, Snake::check_collision, Snake::grow,   *)
(* Game::reset_snake, Game::eat_food and Game::respawn_food.               *)
(*                                                                         *)
(* Time is counted in integer units, UnitsPerSecond of them in a second;   *)
(* the field last_update is represented by the value its elapsed() call    *)
(* returns, saturated at ElapsedCap (the code only compares it with        *)
(* 1/game_speed).  The random draws of respawn_food are taken from a       *)
(* sample of the range (gen_range below).                                  *)
(***************************************************************************)
EXTENDS Integers, Sequences, FiniteSets, TLC

\* ---------------------------------------------------------------- constants
WIDTH == 450
HEIGHT == 450
CELL_SIZE == 25
game_speed == 10
StartX == 5
StartY == 5
FoodStartX == 10
FoodStartY == 15

\* ------------------------------------------------------------------- bounds
\* longest snake explored: a due update that would make it longer is not taken
MaxLen == 3
\* resolution of the clock: time units in one second
UnitsPerSecond == 15
\* a frame lasts between 1 and MaxFrameUnits time units
MaxFrameUnits == 1
\* longest body and largest coordinate of the snakes handed to the Snake
\* methods in SnakeSpec
FnMaxLen == 3
FnMaxCoord == 1

\* -------------------------------------------------------------------- state
VARIABLES
    body,         \* Game.snake.body, head first
    food,         \* Game.food.position
    move_dir,     \* Game.move_dir
    direction,    \* Game.direction
    elapsed,      \* Game.last_update.elapsed(), in time units, saturated
    pc,           \* main: position in the loop body ("poll", "update", "draw")
    snake_head,   \* Game::update: the local snake_head of the last due update
    tick_reset,   \* history: the last due update called reset_snake
    tick_ate,     \* history: the last due update called eat_food
    applied_dir,  \* history: move_dir applied by the last due update, (0,0) after a reset
    since_step,   \* history: time since the last due update (or construction), saturated
    ret,          \* SnakeSpec: the value returned by check_collision
    run           \* RunSpec, history: due updates since the last key event, counted
                  \* from a state with move_dir # (0,0), none of which ended in the
                  \* start configuration; -1 where it is not counted

vars == <<body, food, move_dir, direction, elapsed, pc, snake_head,
          tick_reset, tick_ate, applied_dir, since_step, ret, run>>

Vector2(vx, vy) == [x |-> vx, y |-> vy]

Zero == Vector2(0, 0)

DirectionalKeys == {"KEY_UP", "KEY_DOWN", "KEY_LEFT", "KEY_RIGHT"}

\* the keys get_key_pressed can deliver: the four arrows and one other key
Keys == DirectionalKeys \cup {"KEY_SPACE"}

Directions == {"none", "up", "down", "left", "right"}

\* Grid::new as called by Game::new
grid == [rows |-> WIDTH \div CELL_SIZE, cols |-> HEIGHT \div CELL_SIZE]

\* the least number of time units at which Game::update is due; elapsed times
\* are not told apart beyond it
ElapsedCap == (UnitsPerSecond + game_speed - 1) \div game_speed

Min(a, b) == IF a < b THEN a ELSE b

\* max(rows, cols) of the grid
MaxRowsCols == IF grid.rows > grid.cols THEN grid.rows ELSE grid.cols

\* ------------------------------------------------------------------- Snake
Snake_new(sx, sy) == <<Vector2(sx, sy)>>

\* a push of a copy of the head instead of the last segment
grow_head(b) == Append(b, Vector2(b[1].x, b[1].y))

grow(b) == Append(b, Vector2(b[Len(b)].x, b[Len(b)].y))

\* a scan that starts at the head itself (body[0..] for body[1..])
check_collision_from_head(b) ==
    \E i \in 1..Len(b) : b[1].x = b[i].x /\ b[1].y = b[i].y

check_collision(b) ==
    \E i \in 2..Len(b) : b[1].x = b[i].x /\ b[1].y = b[i].y

\* a loop that copies the segment after it was overwritten: every trailing
\* segment ends at the old head
RECURSIVE shift_segments_stale(_, _, _)
shift_segments_stale(b, i, prev_head) ==
    IF i > Len(b) THEN b
    ELSE shift_segments_stale([b EXCEPT ![i] = Vector2(prev_head.x, prev_head.y)],
                              i + 1, prev_head)

\* the loop of Snake::update from segment i on: prev_head is threaded through
\* the body, each segment is read before it is overwritten
RECURSIVE shift_segments(_, _, _)
shift_segments(b, i, prev_head) ==
    IF i > Len(b) THEN b
    ELSE shift_segments([b EXCEPT ![i] = Vector2(prev_head.x, prev_head.y)],
                        i + 1, b[i])

\* a head moved against move_dir (-= for +=)
Snake_update_backwards(b, d) ==
    shift_segments([b EXCEPT ![1] = Vector2(b[1].x - d.x, b[1].y - d.y)],
                   2, b[1])

Snake_update(b, d) ==
    shift_segments([b EXCEPT ![1] = Vector2(b[1].x + d.x, b[1].y + d.y)],
                   2, b[1])

\* -------------------------------------------------------------------- Food
get_position(p) == Vector2(p.x * CELL_SIZE, p.y * CELL_SIZE)

\* -------------------------------------------------------------------- Game
\* a range that includes its upper end (0..=max instead of 0..max)
gen_range_inclusive(lo, hi) == {v \in lo..hi : v = StartX \/ v = hi}

\* the outcomes explored of rand's gen_range(lo..hi): the start coordinate of
\* the snake and the largest value of the range
gen_range(lo, hi) == {v \in lo..(hi - 1) : v = StartX \/ v = hi - 1}

\* the positions Game::respawn_food can leave in food.position
respawn_food ==
    LET max_x == WIDTH \div CELL_SIZE
        max_y == HEIGHT \div CELL_SIZE
    IN {Vector2(rx, ry) : rx \in gen_range(0, max_x), ry \in gen_range(0, max_y)}

\* a handler whose KEY_RIGHT arm lost its guard
handle_keydown_unguarded(k, md, dir) ==
    IF k = "KEY_UP" /\ dir # "down" THEN [move_dir |-> Vector2(0, -1), direction |-> "up"]
    ELSE IF k = "KEY_DOWN" /\ dir # "up" THEN [move_dir |-> Vector2(0, 1), direction |-> "down"]
    ELSE IF k = "KEY_LEFT" /\ dir # "right" THEN [move_dir |-> Vector2(-1, 0), direction |-> "left"]
    ELSE IF k = "KEY_RIGHT" THEN [move_dir |-> Vector2(1, 0), direction |-> "right"]
    ELSE [move_dir |-> md, direction |-> dir]

\* a handler whose KEY_LEFT arm stores the label of KEY_RIGHT
handle_keydown_mislabel(k, md, dir) ==
    IF k = "KEY_UP" /\ dir # "down" THEN [move_dir |-> Vector2(0, -1), direction |-> "up"]
    ELSE IF k = "KEY_DOWN" /\ dir # "up" THEN [move_dir |-> Vector2(0, 1), direction |-> "down"]
    ELSE IF k = "KEY_LEFT" /\ dir # "right" THEN [move_dir |-> Vector2(-1, 0), direction |-> "right"]
    ELSE IF k = "KEY_RIGHT" /\ dir # "left" THEN [move_dir |-> Vector2(1, 0), direction |-> "right"]
    ELSE [move_dir |-> md, direction |-> dir]

\* Game::handle_keydown as a function of the key and (move_dir, direction)
handle_keydown(k, md, dir) ==
    IF k = "KEY_UP" /\ dir # "down" THEN [move_dir |-> Vector2(0, -1), direction |-> "up"]
    ELSE IF k = "KEY_DOWN" /\ dir # "up" THEN [move_dir |-> Vector2(0, 1), direction |-> "down"]
    ELSE IF k = "KEY_LEFT" /\ dir # "right" THEN [move_dir |-> Vector2(-1, 0), direction |-> "left"]
    ELSE IF k = "KEY_RIGHT" /\ dir # "left" THEN [move_dir |-> Vector2(1, 0), direction |-> "right"]
    ELSE [move_dir |-> md, direction |-> dir]

\* an early return with the comparison turned round
throttled_inverted(e) == e * game_speed > UnitsPerSecond

\* the early return of Game::update: elapsed < 1.0 / game_speed
throttled(e) == e * game_speed < UnitsPerSecond

\* a bounds test with > for >= on the right and bottom edges
reset_condition_off_by_one(h, b) ==
    \/ h.x > grid.cols
    \/ h.x < 0
    \/ h.y < 0
    \/ h.y > grid.rows
    \/ check_collision(b)

\* a bounds test without the two lower edges
reset_condition_no_lower(h, b) ==
    \/ h.x >= grid.cols
    \/ h.y >= grid.rows
    \/ check_collision(b)

\* the condition of the first if of Game::update
reset_condition(h, b) ==
    \/ h.x >= grid.cols
    \/ h.x < 0
    \/ h.y < 0
    \/ h.y >= grid.rows
    \/ check_collision(b)

\* a comparison of the x coordinates alone
eat_condition_x_only(h, f) == h.x * CELL_SIZE = get_position(f).x

\* the condition of the second if of Game::update
eat_condition(h, f) ==
    /\ h.x * CELL_SIZE = get_position(f).x
    /\ h.y * CELL_SIZE = get_position(f).y

\* a reset that leaves the body empty
reset_snake_empty == [body |-> <<>>, move_dir |-> Zero]

\* Game::reset_snake: the fields it assigns
reset_snake == [body |-> Snake_new(StartX, StartY), move_dir |-> Zero]

\* Game::new
Init ==
    /\ body = Snake_new(StartX, StartY)
    /\ food = Vector2(FoodStartX, FoodStartY)
    /\ move_dir = Zero
    /\ direction = "none"
    /\ elapsed = 0
    /\ pc = "poll"
    /\ snake_head = Vector2(StartX, StartY)
    /\ tick_reset = FALSE
    /\ tick_ate = FALSE
    /\ applied_dir = Zero
    /\ since_step = 0
    /\ ret = FALSE
    /\ run = -1

\* main: get_key_pressed returned Some(k); handle_keydown(k) is called
KeyPressed(k) ==
    /\ pc = "poll"
    /\ move_dir' = handle_keydown(k, move_dir, direction).move_dir
    /\ direction' = handle_keydown(k, move_dir, direction).direction
    /\ pc' = "update"
    /\ run' = (IF run < 0 THEN run ELSE 0)
    /\ UNCHANGED <<body, food, elapsed, snake_head, tick_reset, tick_ate,
                   applied_dir, since_step, ret>>

\* main: get_key_pressed returned None
NoKeyPressed ==
    /\ pc = "poll"
    /\ pc' = "update"
    /\ UNCHANGED <<body, food, move_dir, direction, elapsed, snake_head,
                   tick_reset, tick_ate, applied_dir, since_step, ret, run>>

\* Game::update called before the tick interval has elapsed
UpdateThrottled ==
    /\ pc = "update"
    /\ throttled(elapsed)
    /\ pc' = "draw"
    /\ UNCHANGED <<body, food, move_dir, direction, elapsed, snake_head,
                   tick_reset, tick_ate, applied_dir, since_step, ret, run>>

\* Game::update when due: Snake::update, the reset test on the moved head, the
\* eat test on the same (possibly stale) head, last_update = now
UpdateDue ==
    /\ pc = "update"
    /\ ~throttled(elapsed)
    /\ LET moved == Snake_update(body, move_dir)
           head == moved[1]
           reset == reset_condition(head, moved)
           body1 == IF reset THEN reset_snake.body ELSE moved
           eat == eat_condition(head, food)
           body2 == IF eat THEN grow(body1) ELSE body1
       IN /\ Len(body2) <= MaxLen
          /\ body' = body2
          /\ move_dir' = IF reset THEN reset_snake.move_dir ELSE move_dir
          /\ food' \in (IF eat THEN respawn_food ELSE {food})
          /\ snake_head' = head
          /\ tick_reset' = reset
          /\ tick_ate' = eat
          /\ applied_dir' = IF reset THEN Zero ELSE move_dir
          /\ run' = (IF run < 0 THEN run
                     ELSE IF body2 = Snake_new(StartX, StartY) /\ move_dir' = Zero THEN 0
                     ELSE IF run = 0 /\ move_dir = Zero THEN 0
                     ELSE Min(MaxRowsCols, run + 1))
    /\ elapsed' = 0
    /\ since_step' = 0
    /\ pc' = "draw"
    /\ UNCHANGED <<direction, ret>>

\* main: the drawing calls; the frame ends after dt time units
Draw(dt) ==
    /\ pc = "draw"
    /\ elapsed' = Min(ElapsedCap, elapsed + dt)
    /\ since_step' = Min(ElapsedCap, since_step + dt)
    /\ pc' = "poll"
    /\ UNCHANGED <<body, food, move_dir, direction, snake_head, tick_reset,
                   tick_ate, applied_dir, ret, run>>

Next ==
    \/ \E k \in Keys : KeyPressed(k)
    \/ NoKeyPressed
    \/ UpdateThrottled
    \/ UpdateDue
    \/ \E dt \in 1..MaxFrameUnits : Draw(dt)

Spec == Init /\ [][Next]_vars

\* ------------------------------------------------ the game, ticks counted
\* RunSpec is the game of Spec with the history variable run counting.
RunInit ==
    /\ body = Snake_new(StartX, StartY)
    /\ food = Vector2(FoodStartX, FoodStartY)
    /\ move_dir = Zero
    /\ direction = "none"
    /\ elapsed = 0
    /\ pc = "poll"
    /\ snake_head = Vector2(StartX, StartY)
    /\ tick_reset = FALSE
    /\ tick_ate = FALSE
    /\ applied_dir = Zero
    /\ since_step = 0
    /\ ret = FALSE
    /\ run = 0

RunSpec == RunInit /\ [][Next]_vars

\* ------------------------------------------------ the Snake methods, alone
\* SnakeSpec calls one method of Snake on a body and a move_dir drawn from
\* bounded sets; the fields of Game it does not use keep their initial values.
FnCells == {Vector2(cx, cy) : cx \in 0..FnMaxCoord, cy \in 0..FnMaxCoord}

FnBodies == UNION {[1..n -> FnCells] : n \in 1..FnMaxLen}

FnDirs == {Zero, Vector2(0, -1), Vector2(0, 1), Vector2(-1, 0), Vector2(1, 0)}

SnakeInit ==
    /\ body \in FnBodies
    /\ move_dir \in FnDirs
    /\ pc = "call"
    /\ food = Vector2(FoodStartX, FoodStartY)
    /\ direction = "none"
    /\ elapsed = 0
    /\ snake_head = Vector2(StartX, StartY)
    /\ tick_reset = FALSE
    /\ tick_ate = FALSE
    /\ applied_dir = Zero
    /\ since_step = 0
    /\ ret = FALSE
    /\ run = -1

CallSnakeUpdate ==
    /\ pc = "call"
    /\ body' = Snake_update(body, move_dir)
    /\ pc' = "updated"
    /\ UNCHANGED <<food, move_dir, direction, elapsed, snake_head, tick_reset,
                   tick_ate, applied_dir, since_step, ret, run>>

CallGrow ==
    /\ pc = "call"
    /\ body' = grow(body)
    /\ pc' = "grown"
    /\ UNCHANGED <<food, move_dir, direction, elapsed, snake_head, tick_reset,
                   tick_ate, applied_dir, since_step, ret, run>>

CallCheckCollision ==
    /\ pc = "call"
    /\ ret' = check_collision(body)
    /\ pc' = "checked"
    /\ UNCHANGED <<body, food, move_dir, direction, elapsed, snake_head,
                   tick_reset, tick_ate, applied_dir, since_step, run>>

SnakeNext ==
    \/ CallSnakeUpdate
    \/ CallGrow
    \/ CallCheckCollision

SnakeSpec == SnakeInit /\ [][SnakeNext]_vars

\* ------------------------------------------------------------------ claims
StartSnake == <<Vector2(5, 5)>>

Opposite(v) == Vector2(0 - v.x, 0 - v.y)

OutOfGrid(h) == h.x < 0 \/ h.x >= grid.cols \/ h.y < 0 \/ h.y >= grid.rows

Cells(b) == {b[i] : i \in 1..Len(b)}

KeyVector(k) ==
    CASE k = "KEY_UP" -> Vector2(0, -1)
      [] k = "KEY_DOWN" -> Vector2(0, 1)
      [] k = "KEY_LEFT" -> Vector2(-1, 0)
      [] k = "KEY_RIGHT" -> Vector2(1, 0)

KeyLabel(k) ==
    CASE k = "KEY_UP" -> "up"
      [] k = "KEY_DOWN" -> "down"
      [] k = "KEY_LEFT" -> "left"
      [] k = "KEY_RIGHT" -> "right"

OppositeLabel(l) ==
    CASE l = "up" -> "down"
      [] l = "down" -> "up"
      [] l = "left" -> "right"
      [] l = "right" -> "left"

\* C1: a due update in which the reset condition fires leaves the game Idle:
\* move_dir = (0,0) and direction = "none".
C1_ResetReturnsToIdle ==
    [][(UpdateDue /\ tick_reset') => (move_dir' = Zero /\ direction' = "none")]_vars

\* C2: the move_dir a due update applies is never the exact opposite of the
\* non-zero move_dir the preceding due update applied, no reset in between.
C2_NoReversalBetweenTicks ==
    [][(UpdateDue /\ applied_dir # Zero) => move_dir # Opposite(applied_dir)]_vars

\* C3: a due update whose move puts the head on a cell of a non-head segment
\* ends with body = [(5,5)] and move_dir = (0,0).
C3_SelfCollisionResets ==
    [][(UpdateDue /\ move_dir # Zero
                  /\ \E i \in 2..Len(body) :
                        Snake_update(body, move_dir)[i] = snake_head')
        => (body' = StartSnake /\ move_dir' = Zero)]_vars

\* C4: a due update whose move puts the head outside the grid ends with
\* body = [(5,5)] and move_dir = (0,0).
C4_WallResets ==
    [][(UpdateDue /\ OutOfGrid(snake_head'))
        => (body' = StartSnake /\ move_dir' = Zero)]_vars

\* a snake that ate before has run into the right wall and was reset
C4_Witness ==
    /\ pc = "draw" /\ since_step = 0 /\ tick_reset
    /\ snake_head.x = grid.cols
    /\ food # Vector2(FoodStartX, FoodStartY)
    /\ body = StartSnake /\ move_dir = Zero

\* C5: a due update whose moved head is on the food ends with the snake one
\* cell longer than it began.
C5_EatingGrowsByOne ==
    [][(UpdateDue /\ snake_head' = food) => Len(body') = Len(body) + 1]_vars

\* C6: the food position is always a cell of the grid.
C6_FoodInGrid ==
    /\ 0 <= food.x /\ food.x < grid.cols
    /\ 0 <= food.y /\ food.y < grid.rows

\* the food was eaten and respawned in the last column and row
C6_Witness ==
    /\ tick_ate
    /\ food = Vector2(grid.cols - 1, grid.rows - 1)

C8_HandleKeydown ==
    [][\A k \in Keys : KeyPressed(k) =>
          /\ IF k \in DirectionalKeys /\ direction # OppositeLabel(KeyLabel(k))
             THEN move_dir' = KeyVector(k) /\ direction' = KeyLabel(k)
             ELSE move_dir' = move_dir /\ direction' = direction
          /\ body' = body /\ food' = food /\ elapsed' = elapsed]_vars

\* a turn was accepted since the last due update, which applied "right"
C8_Witness ==
    /\ pc = "update"
    /\ applied_dir = Vector2(1, 0)
    /\ move_dir = Vector2(0, -1) /\ direction = "up"

\* C9: update() called before a tick interval has elapsed changes nothing;
\* called when due it sets last_update to now; two simulation steps are at
\* least one tick interval apart.
C9_Throttle ==
    [][(pc = "update" /\ pc' = "draw") =>
          IF elapsed * game_speed < UnitsPerSecond
          THEN /\ body' = body /\ food' = food /\ move_dir' = move_dir
               /\ direction' = direction /\ elapsed' = elapsed
               /\ since_step' = since_step
          ELSE /\ elapsed' = 0
               /\ since_step' = 0
               /\ since_step * game_speed >= UnitsPerSecond]_vars

\* an update was throttled after an earlier due update had moved the snake
C9_Witness ==
    /\ pc = "draw"
    /\ elapsed > 0 /\ elapsed * game_speed < UnitsPerSecond
    /\ applied_dir # Zero

\* C10: Snake::update keeps the length, moves segment 0 by move_dir and gives
\* every segment i > 0 the pre-update position of segment i-1.
C10_ShiftRegister ==
    [][CallSnakeUpdate =>
          /\ Len(body') = Len(body)
          /\ body'[1] = Vector2(body[1].x + move_dir.x, body[1].y + move_dir.y)
          /\ \A i \in 2..Len(body) : body'[i] = body[i - 1]]_vars

\* a snake of three cells on three different cells was moved
C10_Witness ==
    /\ pc = "updated"
    /\ Len(body) = 3
    /\ move_dir # Zero
    /\ body[2] # body[3]
    /\ body[1] # body[2]

\* C11: the snake body is never empty, so body[0] and the last segment read
\* by grow() always exist.
C11_BodyNeverEmpty == Len(body) >= 1

\* a due update reset the snake and grew the fresh one in the same call
C11_Witness ==
    /\ pc = "draw" /\ since_step = 0
    /\ tick_reset /\ tick_ate
    /\ Len(body) = 2

\* C12: check_collision() returns true exactly when some non-head segment has
\* the head's coordinates; it returns false for a body of distinct cells and
\* for a body of one cell.
C12_CheckCollision ==
    pc = "checked" =>
        /\ ret <=> (body[1] \in {body[i] : i \in 2..Len(body)})
        /\ Cardinality(Cells(body)) = Len(body) => ~ret
        /\ Len(body) = 1 => ~ret

\* the last of three segments, and not the second, lies on the head
C12_Witness ==
    /\ pc = "checked" /\ ret
    /\ Len(body) = 3
    /\ body[2] # body[1]
    /\ body[3] = body[1]

\* C13: grow() makes the body one segment longer, the new last segment has
\* the coordinates of the old last segment, the old segments are unchanged.
C13_Grow ==
    [][CallGrow =>
          /\ Len(body') = Len(body) + 1
          /\ body'[Len(body')] = body[Len(body)]
          /\ \A i \in 1..Len(body) : body'[i] = body[i]]_vars

\* a body of two different cells was grown to three
C13_Witness ==
    /\ pc = "grown"
    /\ Len(body) = 3
    /\ body[3] = body[2]
    /\ body[1] # body[2]

\* C14: in the state Game::new builds (snake [(5,5)], food (10,15)), after
\* any one directional key a due update moves the head one cell in the key's
\* direction ("right": (6,5)), keeps the length 1, fires neither the reset nor
\* the eat, and leaves the food at (10,15).
C14_FirstMove ==
    [][\A k \in DirectionalKeys :
          (/\ UpdateDue
           /\ body = <<Vector2(5, 5)>>
           /\ food = Vector2(10, 15)
           /\ move_dir = handle_keydown(k, Zero, "none").move_dir
           /\ direction = handle_keydown(k, Zero, "none").direction)
          => /\ body' = <<Vector2(5 + KeyVector(k).x, 5 + KeyVector(k).y)>>
             /\ (k = "KEY_RIGHT" => body' = <<Vector2(6, 5)>>)
             /\ ~tick_reset' /\ ~tick_ate'
             /\ food' = Vector2(10, 15)
             /\ grid = [rows |-> 18, cols |-> 18]]_vars

\* "right" was issued on the initial snake and one due update moved it
C14_Witness ==
    /\ pc = "draw" /\ since_step = 0
    /\ body = <<Vector2(6, 5)>>
    /\ food = Vector2(10, 15)
    /\ direction = "right" /\ move_dir = Vector2(1, 0)
    /\ ~tick_reset /\ ~tick_ate

\* C15: between the calls of main's loop (after every update, due or not,
\* and after every key event) every cell of the body lies inside the grid.
C15_BodyInGrid ==
    \A i \in 1..Len(body) : ~OutOfGrid(body[i])

\* a snake of three cells has just moved its head into the last column
C15_Witness ==
    /\ pc = "draw" /\ since_step = 0
    /\ Len(body) = 3
    /\ body[1].x = grid.cols - 1
    /\ applied_dir = Vector2(1, 0)

\* C16: move_dir is (0,0) or the unit vector named by direction, and
\* direction = "none" implies move_dir = (0,0).
C16_DirectionConsistent ==
    /\ \/ move_dir = Zero
       \/ /\ direction \in {"up", "down", "left", "right"}
          /\ move_dir = (CASE direction = "up" -> Vector2(0, -1)
                           [] direction = "down" -> Vector2(0, 1)
                           [] direction = "left" -> Vector2(-1, 0)
                           [] direction = "right" -> Vector2(1, 0))
    /\ direction = "none" => move_dir = Zero

\* a key turned the snake to the left after a reset had zeroed move_dir under
\* the label "up"
C16_Witness ==
    /\ pc = "update"
    /\ tick_reset
    /\ snake_head.y = -1
    /\ direction = "left" /\ move_dir = Vector2(-1, 0)

\* C18: the food position changes only in a due update whose moved head is
\* on the food; key events, throttled updates and every other due update
\* (resets included) leave it unchanged.
C18_FoodChangesOnlyByEating ==
    [][food' # food =>
          /\ pc = "update"
          /\ ~(elapsed * game_speed < UnitsPerSecond)
          /\ snake_head' = food]_vars

\* the snake ate the first food and the food moved to (5,17)
C18_Witness ==
    /\ pc = "draw" /\ since_step = 0
    /\ tick_ate /\ ~tick_reset
    /\ Len(body) = 2
    /\ food = Vector2(5, 17)

\* C17: from a state with move_dir # (0,0), with no key event, at most
\* max(rows, cols) due updates pass before one ends in the reset
\* configuration (start snake, move_dir = (0,0)).
C17_ResetWithinBound == run < MaxRowsCols

\* the due updates left before the head leaves the grid in direction d
TicksToWall(h, d) ==
    CASE d = Vector2(1, 0) -> grid.cols - h.x
      [] d = Vector2(-1, 0) -> h.x + 1
      [] d = Vector2(0, 1) -> grid.rows - h.y
      [] d = Vector2(0, -1) -> h.y + 1

\* C17, for the call of reset_snake alone: a due update with move_dir # (0,0)
\* starts at most max(rows, cols) moves from the wall ahead, and either calls
\* reset_snake (move_dir becomes (0,0)) or keeps move_dir and ends one move
\* nearer to that wall.
C17_ResetCallWithinBound ==
    [][(UpdateDue /\ move_dir # Zero) =>
          /\ TicksToWall(body[1], move_dir) \in 1..MaxRowsCols
          /\ \/ tick_reset' /\ move_dir' = Zero
             \/ /\ move_dir' = move_dir
                /\ TicksToWall(body'[1], move_dir')
                     = TicksToWall(body[1], move_dir) - 1]_vars
====
